---- MODULE Spec2Model ----
(***************************************************************************)
(* A model of the RPLIDAR driver (rplidar_drv/src/lib.rs): the telemetry   *)
(* path (read a frame, validate, decode, queue, hand out one point) and    *)
(* the scan start.                                                         *)
(*                                                                         *)
(* A ScanPoint is modelled by its provenance: trig is the arrival number   *)
(* of the frame whose dispatch appended it, src the arrival number of the  *)
(* frame that carries its data, idx its position among the points of src.  *)
(* The numeric fields of a point are a function of the bytes of src and    *)
(* are not modelled.                                                       *)
(***************************************************************************)
EXTENDS Integers, Sequences, FiniteSets, TLC

VARIABLES
    cached_measurement_nodes,   \* RplidarDevice.cached_measurement_nodes
    cached_prev_capsule,        \* RplidarDevice.cached_prev_capsule
    wire,                       \* frames buffered in the channel, oldest first
    nseq,                       \* number of telemetry frames that arrived so far
    io,                         \* transport operations of the last call, in order
    last,                       \* the last public call: what it saw and returned
    decoded,                    \* every point appended to the queue, in order
    delivered,                  \* every point returned by grab_scan_point, in order
    session,                    \* the classic capsules decoded since the cache last
                                \* held none of them, and the points they appended
    dropped                     \* arrival numbers of the classic capsules dropped for
                                \* failing validation

vars == <<cached_measurement_nodes, cached_prev_capsule, wire, nseq, io, last,
          decoded, delivered, session, dropped>>

----------------------------------------------------------------------------
(* Bounds of the model *)

MaxFrames == 3
PointsPerCapsule == 2

\* std::mem::size_of of the answer records, scaled down: the legacy node, the HQ
\* node, the capsule and the ultra-capsule (two header bytes and a body)
SIZE_MeasurementNode == 2
SIZE_MeasurementNodeHq == 3
SIZE_CapsuleMeasurementNodes == 4
SIZE_UltraCapsuleMeasurementNodes == 5
\* size_of the device info record, scaled down
SIZE_DeviceInfo == 2

----------------------------------------------------------------------------
(* Protocol constants (cmds.rs, answers.rs) *)

RPLIDAR_RESP_MEASUREMENT_EXP_SYNC_1 == 10
RPLIDAR_RESP_MEASUREMENT_EXP_SYNC_2 == 5

RPLIDAR_ANS_TYPE_MEASUREMENT == "ANS_TYPE_MEASUREMENT"
RPLIDAR_ANS_TYPE_MEASUREMENT_HQ == "ANS_TYPE_MEASUREMENT_HQ"
RPLIDAR_ANS_TYPE_MEASUREMENT_CAPSULED == "ANS_TYPE_MEASUREMENT_CAPSULED"
RPLIDAR_ANS_TYPE_MEASUREMENT_CAPSULED_ULTRA == "ANS_TYPE_MEASUREMENT_CAPSULED_ULTRA"
RPLIDAR_ANS_TYPE_DEVINFO == "ANS_TYPE_DEVINFO"
RPLIDAR_ANS_TYPE_GET_LIDAR_CONF == "ANS_TYPE_GET_LIDAR_CONF"

RPLIDAR_CMD_SCAN == "CMD_SCAN"
RPLIDAR_CMD_FORCE_SCAN == "CMD_FORCE_SCAN"
RPLIDAR_CMD_EXPRESS_SCAN == "CMD_EXPRESS_SCAN"
RPLIDAR_CMD_GET_LIDAR_CONF == "CMD_GET_LIDAR_CONF"
RPLIDAR_CMD_GET_DEVICE_INFO == "CMD_GET_DEVICE_INFO"
RPLIDAR_CMD_STOP == "CMD_STOP"
RPLIDAR_CMD_RESET == "CMD_RESET"
RPLIDAR_CMD_SET_MOTOR_PWM == "CMD_SET_MOTOR_PWM"

RPLIDAR_CONF_SCAN_MODE_COUNT == 112

RPLIDAR_CONF_SCAN_MODE_US_PER_SAMPLE == 113
RPLIDAR_CONF_SCAN_MODE_MAX_DISTANCE == 116
RPLIDAR_CONF_SCAN_MODE_ANS_TYPE == 117
RPLIDAR_CONF_SCAN_MODE_TYPICAL == 124
RPLIDAR_CONF_SCAN_MODE_NAME == 127


----------------------------------------------------------------------------
(* Bytes *)

RECURSIVE BitXor(_, _)
BitXor(a, b) ==
    IF a = 0 THEN b
    ELSE IF b = 0 THEN a
    ELSE (((a % 2) + (b % 2)) % 2) + 2 * BitXor(a \div 2, b \div 2)

RECURSIVE Pow256(_)
Pow256(k) == IF k = 0 THEN 1 ELSE 256 * Pow256(k - 1)

\* LittleEndian::write_u16 / write_u32
WriteLE(n, width) == [i \in 1..width |-> (n \div Pow256(i - 1)) % 256]

\* LittleEndian::read_u32 and the transmute of little-endian integers
RECURSIVE ReadLE(_)
ReadLE(bytes) ==
    IF bytes = <<>> THEN 0 ELSE Head(bytes) + 256 * ReadLE(Tail(bytes))

Zeros(n) == [i \in 1..n |-> 0]

\* F applied to the value of v, with v evaluated once
With(v, F(_)) == CHOOSE y \in { F(x) : x \in {v} } : TRUE

\* Checksum::push_slice followed by Checksum::checksum: the XOR of the bytes
\* (folded by halves: XOR is associative, and the recursion stays shallow)
RECURSIVE Checksum(_)
Checksum(bytes) ==
    IF bytes = <<>> THEN 0
    ELSE IF Len(bytes) = 1 THEN bytes[1]
    ELSE BitXor(Checksum(SubSeq(bytes, 1, Len(bytes) \div 2)),
                Checksum(SubSeq(bytes, (Len(bytes) \div 2) + 1, Len(bytes))))

----------------------------------------------------------------------------
(* Values *)

NoMsg == [cmd |-> "NONE", data |-> <<>>, seq |-> 0]
NoPoint == [trig |-> 0, src |-> 0, idx |-> 0]
CapsuleNone == [kind |-> "None", seq |-> 0, data |-> <<>>]
Capsuled(nodes) == [kind |-> "Capsuled", seq |-> nodes.seq, data |-> nodes.data]
UltraCapsuled(nodes) == [kind |-> "UltraCapsuled", seq |-> nodes.seq, data |-> nodes.data]

State(nodes, capsule) == [nodes |-> nodes, capsule |-> capsule]
Chan(w, ops) == [wire |-> w, io |-> ops]
\* one attempted transport operation and how it ended
WriteOp(msg, res) == [op |-> "write", cmd |-> msg.cmd, data |-> msg.data, res |-> res]
ReadOp(res) == [op |-> "read", cmd |-> "-", data |-> <<>>, res |-> res]

----------------------------------------------------------------------------
(* The channel (rpos_drv::Channel): a byte stream carrying frames in order *)

\* Channel::write: tr = "ioerr" is a failing transport
ChannelWrite(ch, msg, tr) ==
    IF tr = "ioerr"
    THEN [res |-> "IoError", ch |-> [ch EXCEPT !.io = Append(@, WriteOp(msg, "IoError"))]]
    ELSE [res |-> "Ok", ch |-> [ch EXCEPT !.io = Append(@, WriteOp(msg, "Ok"))]]

\* Channel::read_until: the oldest buffered frame, or none within the timeout
ChannelReadUntil(ch, tr) ==
    IF tr = "ioerr"
    THEN [res |-> "IoError", msg |-> NoMsg,
          ch |-> [ch EXCEPT !.io = Append(@, ReadOp("IoError"))]]
    ELSE IF ch.wire = <<>>
    THEN [res |-> "Ok", msg |-> NoMsg, ch |-> [ch EXCEPT !.io = Append(@, ReadOp("Ok"))]]
    ELSE [res |-> "Ok", msg |-> Head(ch.wire),
          ch |-> [wire |-> Tail(ch.wire), io |-> Append(ch.io, ReadOp("Ok"))]]

----------------------------------------------------------------------------
(* Frame validation *)

\* (variant: the checksum is taken from offset 3 on)
check_sync_and_checksum_from_3(msg) ==
    IF Len(msg.data) < 2 THEN "ProtocolError"
    ELSE IF (msg.data[1] \div 16) # RPLIDAR_RESP_MEASUREMENT_EXP_SYNC_1 THEN "ProtocolError"
    ELSE IF (msg.data[2] \div 16) # RPLIDAR_RESP_MEASUREMENT_EXP_SYNC_2 THEN "ProtocolError"
    ELSE LET recv_checksum == (msg.data[1] % 16) + ((msg.data[2] * 16) % 256)
             checksum == Checksum(SubSeq(msg.data, 4, Len(msg.data)))
         IN IF checksum # recv_checksum THEN "ProtocolError" ELSE "Ok"

check_sync_and_checksum(msg) ==
    IF Len(msg.data) < 2 THEN "ProtocolError"
    ELSE IF (msg.data[1] \div 16) # RPLIDAR_RESP_MEASUREMENT_EXP_SYNC_1 THEN "ProtocolError"
    ELSE IF (msg.data[2] \div 16) # RPLIDAR_RESP_MEASUREMENT_EXP_SYNC_2 THEN "ProtocolError"
    ELSE LET recv_checksum == (msg.data[1] % 16) + ((msg.data[2] * 16) % 256)
             checksum == Checksum(SubSeq(msg.data, 3, Len(msg.data)))
         IN IF checksum # recv_checksum THEN "ProtocolError" ELSE "Ok"

\* parse_resp!: the payload must have exactly the size of the record
parse_resp(msg, size) ==
    IF Len(msg.data) # size
    THEN [res |-> "OperationFail", val |-> NoMsg]
    ELSE [res |-> "Ok", val |-> msg]

----------------------------------------------------------------------------
(* Decoding *)

\* (variant: push_front instead of push_back)
on_measurement_node_hq_push_front(st, node) ==
    [st EXCEPT !.nodes = <<node>> \o @]

on_measurement_node_hq(st, node) ==
    [st EXCEPT !.nodes = Append(@, node)]

\* the legacy node is converted and handed to on_measurement_node_hq
on_measurement_node(st, node) ==
    on_measurement_node_hq(st, [trig |-> node.seq, src |-> node.seq, idx |-> 1])

\* capsuled_parser::parse_capsuled: the points of the cached classic capsule,
\* interpolated towards the new one, and the new capsule as the next cache
parse_capsuled(cached_prev, nodes) ==
    IF cached_prev.kind = "Capsuled"
    THEN [out |-> [i \in 1..PointsPerCapsule |->
                      [trig |-> nodes.seq, src |-> cached_prev.seq, idx |-> i]],
          cache |-> Capsuled(nodes)]
    ELSE [out |-> <<>>, cache |-> Capsuled(nodes)]

RECURSIVE PushEach(_, _)
PushEach(st, parsed_nodes) ==
    IF parsed_nodes = <<>> THEN st
    ELSE PushEach(on_measurement_node_hq(st, Head(parsed_nodes)), Tail(parsed_nodes))

\* (variant: the new capsule is not stored as the previous one)
on_measurement_capsuled_keeps_cache(st, nodes) ==
    With(parse_capsuled(st.capsule, nodes), LAMBDA r : PushEach(st, r.out))

on_measurement_capsuled(st, nodes) ==
    With(parse_capsuled(st.capsule, nodes),
         LAMBDA r : PushEach([st EXCEPT !.capsule = r.cache], r.out))

\* (variant: a frame that fails validation is skipped without an error)
on_measurement_capsuled_msg_silent(st, msg) ==
    With(check_sync_and_checksum(msg), LAMBDA checked :
        IF checked # "Ok" THEN [res |-> "Ok", st |-> st]
        ELSE With(parse_resp(msg, SIZE_CapsuleMeasurementNodes), LAMBDA p :
                 IF p.res # "Ok" THEN [res |-> p.res, st |-> st]
                 ELSE [res |-> "Ok", st |-> on_measurement_capsuled(st, p.val)]))

\* (variant: a capsule of the wrong size is decoded before it is refused)
on_measurement_capsuled_msg_decoding_first(st, msg) ==
    With(check_sync_and_checksum(msg), LAMBDA checked :
        IF checked # "Ok" THEN [res |-> checked, st |-> st]
        ELSE With(parse_resp(msg, SIZE_CapsuleMeasurementNodes), LAMBDA p :
                 IF p.res # "Ok" THEN [res |-> p.res, st |-> on_measurement_capsuled(st, msg)]
                 ELSE [res |-> "Ok", st |-> on_measurement_capsuled(st, p.val)]))

on_measurement_capsuled_msg(st, msg) ==
    With(check_sync_and_checksum(msg), LAMBDA checked :
        IF checked # "Ok" THEN [res |-> checked, st |-> st]
        ELSE With(parse_resp(msg, SIZE_CapsuleMeasurementNodes), LAMBDA p :
                 IF p.res # "Ok" THEN [res |-> p.res, st |-> st]
                 ELSE [res |-> "Ok", st |-> on_measurement_capsuled(st, p.val)]))

on_measurement_ultra_capsuled(st, nodes) ==
    IF st.capsule.kind = "UltraCapsuled"
    THEN st
    ELSE [st EXCEPT !.capsule = UltraCapsuled(nodes)]

\* (variant: the frame is decoded before it is validated)
on_measurement_ultra_capsuled_msg_late_check(st, msg) ==
    With(on_measurement_ultra_capsuled(st, msg), LAMBDA st2 :
        With(check_sync_and_checksum(msg), LAMBDA checked :
            IF checked # "Ok" THEN [res |-> checked, st |-> st2]
            ELSE With(parse_resp(msg, SIZE_UltraCapsuleMeasurementNodes), LAMBDA p :
                     IF p.res # "Ok" THEN [res |-> p.res, st |-> st2]
                     ELSE [res |-> "Ok", st |-> st2])))

on_measurement_ultra_capsuled_msg(st, msg) ==
    With(check_sync_and_checksum(msg), LAMBDA checked :
        IF checked # "Ok" THEN [res |-> checked, st |-> st]
        ELSE With(parse_resp(msg, SIZE_UltraCapsuleMeasurementNodes), LAMBDA p :
                 IF p.res # "Ok" THEN [res |-> p.res, st |-> st]
                 ELSE [res |-> "Ok", st |-> on_measurement_ultra_capsuled(st, p.val)]))

\* the match of wait_scan_data_with_timeout on the frame's answer type
\* (variant: an unexpected answer type also forgets the cached capsule)
DispatchMsgForgetting(st, msg) ==
    IF msg.cmd = RPLIDAR_ANS_TYPE_MEASUREMENT
    THEN LET p == parse_resp(msg, SIZE_MeasurementNode)
         IN IF p.res # "Ok" THEN [res |-> p.res, st |-> st]
            ELSE [res |-> "Ok", st |-> on_measurement_node(st, p.val)]
    ELSE IF msg.cmd = RPLIDAR_ANS_TYPE_MEASUREMENT_HQ
    THEN LET p == parse_resp(msg, SIZE_MeasurementNodeHq)
         IN IF p.res # "Ok" THEN [res |-> p.res, st |-> st]
            ELSE [res |-> "Ok",
                  st |-> on_measurement_node_hq(st,
                            [trig |-> msg.seq, src |-> msg.seq, idx |-> 1])]
    ELSE IF msg.cmd = RPLIDAR_ANS_TYPE_MEASUREMENT_CAPSULED
    THEN on_measurement_capsuled_msg(st, msg)
    ELSE IF msg.cmd = RPLIDAR_ANS_TYPE_MEASUREMENT_CAPSULED_ULTRA
    THEN on_measurement_ultra_capsuled_msg(st, msg)
    ELSE [res |-> "ProtocolError", st |-> [st EXCEPT !.capsule = CapsuleNone]]

DispatchMsg(st, msg) ==
    IF msg.cmd = RPLIDAR_ANS_TYPE_MEASUREMENT
    THEN LET p == parse_resp(msg, SIZE_MeasurementNode)
         IN IF p.res # "Ok" THEN [res |-> p.res, st |-> st]
            ELSE [res |-> "Ok", st |-> on_measurement_node(st, p.val)]
    ELSE IF msg.cmd = RPLIDAR_ANS_TYPE_MEASUREMENT_HQ
    THEN LET p == parse_resp(msg, SIZE_MeasurementNodeHq)
         IN IF p.res # "Ok" THEN [res |-> p.res, st |-> st]
            ELSE [res |-> "Ok",
                  st |-> on_measurement_node_hq(st,
                            [trig |-> msg.seq, src |-> msg.seq, idx |-> 1])]
    ELSE IF msg.cmd = RPLIDAR_ANS_TYPE_MEASUREMENT_CAPSULED
    THEN on_measurement_capsuled_msg(st, msg)
    ELSE IF msg.cmd = RPLIDAR_ANS_TYPE_MEASUREMENT_CAPSULED_ULTRA
    THEN on_measurement_ultra_capsuled_msg(st, msg)
    ELSE [res |-> "ProtocolError", st |-> st]

wait_scan_data_with_timeout(st, ch, tr) ==
    With(ChannelReadUntil(ch, tr), LAMBDA opt_msg :
        IF opt_msg.res # "Ok"
        THEN [res |-> opt_msg.res, st |-> st, ch |-> opt_msg.ch, msg |-> NoMsg]
        ELSE IF opt_msg.msg # NoMsg
        THEN With(DispatchMsg(st, opt_msg.msg), LAMBDA d :
                 [res |-> d.res, st |-> d.st, ch |-> opt_msg.ch, msg |-> opt_msg.msg])
        ELSE [res |-> "Ok", st |-> st, ch |-> opt_msg.ch, msg |-> NoMsg])

\* (variant: pop_back instead of pop_front)
PopBack(st) ==
    [point |-> st.nodes[Len(st.nodes)],
     st |-> [st EXCEPT !.nodes = SubSeq(@, 1, Len(@) - 1)]]

\* VecDeque::pop_front
PopFront(st) == [point |-> Head(st.nodes), st |-> [st EXCEPT !.nodes = Tail(@)]]

\* (variant: the dispatch step runs whether or not points are queued)
grab_scan_point_always_waits(st, ch, tr) ==
    With(wait_scan_data_with_timeout(st, ch, tr), LAMBDA w :
        IF w.res # "Ok"
        THEN [res |-> w.res, point |-> NoPoint, st |-> w.st, ch |-> w.ch,
              waited |-> TRUE, wres |-> w.res, msg |-> w.msg,
                  pushed |-> SubSeq(w.st.nodes, Len(st.nodes) + 1, Len(w.st.nodes))]
        ELSE IF w.st.nodes = <<>>
        THEN [res |-> "OperationTimeout", point |-> NoPoint, st |-> w.st, ch |-> w.ch,
              waited |-> TRUE, wres |-> w.res, msg |-> w.msg,
                  pushed |-> SubSeq(w.st.nodes, Len(st.nodes) + 1, Len(w.st.nodes))]
        ELSE [res |-> "Ok", point |-> PopFront(w.st).point, st |-> PopFront(w.st).st,
              ch |-> w.ch, waited |-> TRUE, wres |-> w.res, msg |-> w.msg,
                  pushed |-> SubSeq(w.st.nodes, Len(st.nodes) + 1, Len(w.st.nodes))])

\* (variant: the dispatch step is tried again when the first try brings no point)
grab_scan_point_retrying(st, ch, tr) ==
    IF st.nodes = <<>>
    THEN With(wait_scan_data_with_timeout(st, ch, tr), LAMBDA w1 :
         With(IF w1.res = "Ok" /\ w1.st.nodes = <<>>
              THEN wait_scan_data_with_timeout(w1.st, w1.ch, tr) ELSE w1, LAMBDA w :
            IF w.res # "Ok"
            THEN [res |-> w.res, point |-> NoPoint, st |-> w.st, ch |-> w.ch,
                  waited |-> TRUE, wres |-> w.res, msg |-> w.msg,
                  pushed |-> SubSeq(w.st.nodes, Len(st.nodes) + 1, Len(w.st.nodes))]
            ELSE IF w.st.nodes = <<>>
            THEN [res |-> "OperationTimeout", point |-> NoPoint, st |-> w.st, ch |-> w.ch,
                  waited |-> TRUE, wres |-> w.res, msg |-> w.msg,
                  pushed |-> SubSeq(w.st.nodes, Len(st.nodes) + 1, Len(w.st.nodes))]
            ELSE [res |-> "Ok", point |-> PopFront(w.st).point, st |-> PopFront(w.st).st,
                  ch |-> w.ch, waited |-> TRUE, wres |-> w.res, msg |-> w.msg,
                  pushed |-> SubSeq(w.st.nodes, Len(st.nodes) + 1, Len(w.st.nodes))]))
    ELSE [res |-> "Ok", point |-> PopFront(st).point, st |-> PopFront(st).st, ch |-> ch,
          waited |-> FALSE, wres |-> "-", msg |-> NoMsg, pushed |-> <<>>]

grab_scan_point_with_timeout(st, ch, tr) ==
    IF st.nodes = <<>>
    THEN With(wait_scan_data_with_timeout(st, ch, tr), LAMBDA w :
            IF w.res # "Ok"
            THEN [res |-> w.res, point |-> NoPoint, st |-> w.st, ch |-> w.ch,
                  waited |-> TRUE, wres |-> w.res, msg |-> w.msg,
                  pushed |-> SubSeq(w.st.nodes, Len(st.nodes) + 1, Len(w.st.nodes))]
            ELSE IF w.st.nodes = <<>>
            THEN [res |-> "OperationTimeout", point |-> NoPoint, st |-> w.st, ch |-> w.ch,
                  waited |-> TRUE, wres |-> w.res, msg |-> w.msg,
                  pushed |-> SubSeq(w.st.nodes, Len(st.nodes) + 1, Len(w.st.nodes))]
            ELSE [res |-> "Ok", point |-> PopFront(w.st).point, st |-> PopFront(w.st).st,
                  ch |-> w.ch, waited |-> TRUE, wres |-> w.res, msg |-> w.msg,
                  pushed |-> SubSeq(w.st.nodes, Len(st.nodes) + 1, Len(w.st.nodes))])
    ELSE [res |-> "Ok", point |-> PopFront(st).point, st |-> PopFront(st).st, ch |-> ch,
          waited |-> FALSE, wres |-> "-", msg |-> NoMsg, pushed |-> <<>>]

----------------------------------------------------------------------------
(* The device's side of a configuration query.  dev.typical is the typical  *)
(* scan mode the device reports, dev.count the number of its scan modes;    *)
(* dev.kinds[q] is how it answers query q: "ok" a well-formed reply, "none" *)
(* no reply, "echo" a reply echoing another config type, "size" a reply     *)
(* with one byte 255 too many, "short" a reply of fewer than 4 bytes,       *)
(* "type" a reply with another answer type, "ioerr" a transport that fails  *)
(* the request.  When dev.only is a mode id, the per-mode queries of the    *)
(* other modes are answered well.                                           *)

DeviceConf(dev, config_type, mode) ==
    IF config_type = RPLIDAR_CONF_SCAN_MODE_TYPICAL THEN WriteLE(dev.typical, 2)
    ELSE IF config_type = RPLIDAR_CONF_SCAN_MODE_US_PER_SAMPLE THEN WriteLE(6400 + mode, 4)
    ELSE IF config_type = RPLIDAR_CONF_SCAN_MODE_MAX_DISTANCE THEN WriteLE(4096000 + mode, 4)
    ELSE IF config_type = RPLIDAR_CONF_SCAN_MODE_ANS_TYPE
         THEN IF mode = 0 THEN <<129>> ELSE <<130>>
    ELSE IF config_type = RPLIDAR_CONF_SCAN_MODE_NAME THEN <<69, 48 + (mode % 10), 0>>
    ELSE IF config_type = RPLIDAR_CONF_SCAN_MODE_COUNT THEN WriteLE(dev.count, 2)
    ELSE <<>>

\* how the device answers query q of this request
KindOf(dev, q, req) ==
    IF \/ q \in {"typical", "count", "info"}
       \/ dev.only = -1
       \/ ReadLE(SubSeq(req.data, 5, Len(req.data))) = dev.only
    THEN dev.kinds[q]
    ELSE "ok"

\* the reply to a device info request
DeviceInfoReply(dev) ==
    IF dev.kinds["info"] = "ok"
    THEN <<[cmd |-> RPLIDAR_ANS_TYPE_DEVINFO, data |-> Zeros(SIZE_DeviceInfo), seq |-> 0]>>
    ELSE IF dev.kinds["info"] = "size"
    THEN <<[cmd |-> RPLIDAR_ANS_TYPE_DEVINFO, data |-> Zeros(SIZE_DeviceInfo + 1), seq |-> 0]>>
    ELSE IF dev.kinds["info"] \in {"type", "echo", "short"}
    THEN <<[cmd |-> RPLIDAR_ANS_TYPE_GET_LIDAR_CONF, data |-> Zeros(SIZE_DeviceInfo),
            seq |-> 0]>>
    ELSE <<>>

DeviceReply(dev, q, req) ==
    IF req.cmd = RPLIDAR_CMD_GET_DEVICE_INFO THEN DeviceInfoReply(dev) ELSE
    LET config_type == ReadLE(SubSeq(req.data, 1, 4))
        mode == ReadLE(SubSeq(req.data, 5, Len(req.data)))
        result == DeviceConf(dev, config_type, mode)
        kind == KindOf(dev, q, req)
        reply(data) == <<[cmd |-> RPLIDAR_ANS_TYPE_GET_LIDAR_CONF, data |-> data, seq |-> 0]>>
    IN IF kind = "ok" THEN reply(WriteLE(config_type, 4) \o result)
       ELSE IF kind = "echo" THEN reply(WriteLE(config_type + 1, 4) \o result)
       ELSE IF kind = "size" THEN reply(WriteLE(config_type, 4) \o result \o <<255>>)
       ELSE IF kind = "short" THEN reply(WriteLE(config_type, 3))
       ELSE IF kind = "type" THEN <<[cmd |-> RPLIDAR_ANS_TYPE_DEVINFO,
                                     data |-> WriteLE(config_type, 4) \o result, seq |-> 0]>>
       ELSE <<>>

\* Channel::invoke: write the request, then read the next frame of the stream;
\* the device's reply joins the stream behind what is already buffered
ChannelInvoke(ch, msg, dev, q) ==
    With(ChannelWrite(ch, msg, IF KindOf(dev, q, msg) = "ioerr" THEN "ioerr" ELSE "ok"),
         LAMBDA w :
        IF w.res # "Ok" THEN [res |-> w.res, msg |-> NoMsg, ch |-> w.ch]
        ELSE ChannelReadUntil([w.ch EXCEPT !.wire = @ \o DeviceReply(dev, q, msg)], "ok"))

----------------------------------------------------------------------------
(* Commands without a parameter negotiation *)

\* handle_resp!: the answer type, then the size of the record
handle_resp(ans, msg, size) ==
    IF msg.cmd # ans THEN [res |-> "OperationFail", val |-> NoMsg]
    ELSE parse_resp(msg, size)

get_device_info_with_timeout(ch, dev) ==
    With(ChannelInvoke(ch, [cmd |-> RPLIDAR_CMD_GET_DEVICE_INFO, data |-> <<>>], dev, "info"),
         LAMBDA r :
       IF r.res # "Ok" THEN [res |-> r.res, val |-> NoMsg, ch |-> r.ch]
       ELSE IF r.msg # NoMsg
       THEN [res |-> handle_resp(RPLIDAR_ANS_TYPE_DEVINFO, r.msg, SIZE_DeviceInfo).res,
             val |-> handle_resp(RPLIDAR_ANS_TYPE_DEVINFO, r.msg, SIZE_DeviceInfo).val,
             ch |-> r.ch]
       ELSE [res |-> "OperationTimeout", val |-> NoMsg, ch |-> r.ch])

\* (variant: a stop that also resets the core)
stop_then_reset(ch, tr) ==
    With(ChannelWrite(ch, [cmd |-> RPLIDAR_CMD_STOP, data |-> <<>>], tr), LAMBDA w :
       IF w.res # "Ok" THEN w
       ELSE ChannelWrite(w.ch, [cmd |-> RPLIDAR_CMD_RESET, data |-> <<>>], tr))

stop(ch, tr) == ChannelWrite(ch, [cmd |-> RPLIDAR_CMD_STOP, data |-> <<>>], tr)

core_reset(ch, tr) == ChannelWrite(ch, [cmd |-> RPLIDAR_CMD_RESET, data |-> <<>>], tr)

set_motor_pwm(ch, pwm, tr) ==
    ChannelWrite(ch, [cmd |-> RPLIDAR_CMD_SET_MOTOR_PWM, data |-> WriteLE(pwm, 2)], tr)

----------------------------------------------------------------------------
(* Configuration queries and scan start *)

\* parse_resp_data! on a little-endian integer
parse_resp_data(data, size) ==
    IF Len(data) # size
    THEN [res |-> "OperationFail", val |-> 0]
    ELSE [res |-> "Ok", val |-> ReadLE(data)]

\* (variant: the config type echoed by the reply is not compared)
get_lidar_conf_ignoring_echo(ch, config_type, param, dev, q) ==
    With(ChannelInvoke(ch, [cmd |-> RPLIDAR_CMD_GET_LIDAR_CONF,
                            data |-> WriteLE(config_type, 4) \o param], dev, q),
         LAMBDA response :
       IF response.res # "Ok" THEN [res |-> response.res, val |-> <<>>, ch |-> response.ch]
       ELSE IF response.msg # NoMsg
       THEN IF response.msg.cmd # RPLIDAR_ANS_TYPE_GET_LIDAR_CONF
            THEN [res |-> "OperationFail", val |-> <<>>, ch |-> response.ch]
            ELSE IF Len(response.msg.data) < 4
            THEN [res |-> "OperationFail", val |-> <<>>, ch |-> response.ch]
            ELSE [res |-> "Ok",
                  val |-> SubSeq(response.msg.data, 5, Len(response.msg.data)),
                  ch |-> response.ch]
       ELSE [res |-> "OperationTimeout", val |-> <<>>, ch |-> response.ch])

get_lidar_conf_with_param_and_timeout(ch, config_type, param, dev, q) ==
    With(ChannelInvoke(ch, [cmd |-> RPLIDAR_CMD_GET_LIDAR_CONF,
                            data |-> WriteLE(config_type, 4) \o param], dev, q),
         LAMBDA response :
       IF response.res # "Ok" THEN [res |-> response.res, val |-> <<>>, ch |-> response.ch]
       ELSE IF response.msg # NoMsg
       THEN IF response.msg.cmd # RPLIDAR_ANS_TYPE_GET_LIDAR_CONF
            THEN [res |-> "OperationFail", val |-> <<>>, ch |-> response.ch]
            ELSE IF \/ Len(response.msg.data) < 4
                    \/ ReadLE(SubSeq(response.msg.data, 1, 4)) # config_type
            THEN [res |-> "OperationFail", val |-> <<>>, ch |-> response.ch]
            ELSE [res |-> "Ok",
                  val |-> SubSeq(response.msg.data, 5, Len(response.msg.data)),
                  ch |-> response.ch]
       ELSE [res |-> "OperationTimeout", val |-> <<>>, ch |-> response.ch])

\* a query whose result is a little-endian integer of `size` bytes
ConfInteger(ch, config_type, param, size, dev, q) ==
    With(get_lidar_conf_with_param_and_timeout(ch, config_type, param, dev, q), LAMBDA r :
       IF r.res # "Ok" THEN [res |-> r.res, val |-> 0, ch |-> r.ch]
       ELSE [res |-> parse_resp_data(r.val, size).res,
             val |-> parse_resp_data(r.val, size).val, ch |-> r.ch])

get_typical_scan_mode_with_timeout(ch, dev) ==
    ConfInteger(ch, RPLIDAR_CONF_SCAN_MODE_TYPICAL, <<>>, 2, dev, "typical")

get_scan_mode_us_per_sample_with_timeout(ch, scan_mode, dev) ==
    ConfInteger(ch, RPLIDAR_CONF_SCAN_MODE_US_PER_SAMPLE, WriteLE(scan_mode, 2), 4, dev, "us")

get_scan_mode_max_distance_with_timeout(ch, scan_mode, dev) ==
    ConfInteger(ch, RPLIDAR_CONF_SCAN_MODE_MAX_DISTANCE, WriteLE(scan_mode, 2), 4, dev, "dist")

get_scan_mode_ans_type_with_timeout(ch, scan_mode, dev) ==
    ConfInteger(ch, RPLIDAR_CONF_SCAN_MODE_ANS_TYPE, WriteLE(scan_mode, 2), 1, dev, "ans")

\* str::trim_matches('\0')
RECURSIVE TrimNul(_)
TrimNul(bytes) ==
    IF bytes = <<>> THEN bytes
    ELSE IF Head(bytes) = 0 THEN TrimNul(Tail(bytes))
    ELSE IF bytes[Len(bytes)] = 0 THEN TrimNul(SubSeq(bytes, 1, Len(bytes) - 1))
    ELSE bytes

\* std::str::from_utf8 succeeds on the names the device sends unless a byte
\* that no UTF-8 text contains (here 255) is among them
get_scan_mode_name_with_timeout(ch, scan_mode, dev) ==
    With(get_lidar_conf_with_param_and_timeout(
             ch, RPLIDAR_CONF_SCAN_MODE_NAME, WriteLE(scan_mode, 2), dev, "name"), LAMBDA r :
       IF r.res # "Ok" THEN [res |-> r.res, val |-> <<>>, ch |-> r.ch]
       ELSE IF \A i \in 1..Len(r.val) : r.val[i] < 128
       THEN [res |-> "Ok", val |-> TrimNul(r.val), ch |-> r.ch]
       ELSE [res |-> "ProtocolError", val |-> <<>>, ch |-> r.ch])

\* (variant: the maximum distance is asked for before the sample duration)
get_scan_mode_distance_first(ch, scan_mode, dev) ==
    With(get_scan_mode_max_distance_with_timeout(ch, scan_mode, dev), LAMBDA dist :
    IF dist.res # "Ok"
    THEN [res |-> dist.res,
          val |-> [id |-> -1, us_per_sample |-> 0, max_distance |-> 0, ans_type |-> 0,
                   name |-> <<>>],
          ch |-> dist.ch] ELSE
    With(get_scan_mode_us_per_sample_with_timeout(dist.ch, scan_mode, dev), LAMBDA us :
    IF us.res # "Ok"
    THEN [res |-> us.res,
          val |-> [id |-> -1, us_per_sample |-> 0, max_distance |-> 0, ans_type |-> 0,
                   name |-> <<>>],
          ch |-> us.ch] ELSE
    With(get_scan_mode_ans_type_with_timeout(us.ch, scan_mode, dev), LAMBDA ans :
    IF ans.res # "Ok"
    THEN [res |-> ans.res,
          val |-> [id |-> -1, us_per_sample |-> 0, max_distance |-> 0, ans_type |-> 0,
                   name |-> <<>>],
          ch |-> ans.ch] ELSE
    With(get_scan_mode_name_with_timeout(ans.ch, scan_mode, dev), LAMBDA name :
    IF name.res # "Ok"
    THEN [res |-> name.res,
          val |-> [id |-> -1, us_per_sample |-> 0, max_distance |-> 0, ans_type |-> 0,
                   name |-> <<>>],
          ch |-> name.ch] ELSE
    [res |-> "Ok",
     val |-> [id |-> scan_mode, us_per_sample |-> us.val,
              max_distance |-> dist.val, ans_type |-> ans.val, name |-> name.val],
     ch |-> name.ch]))))

NoMode == [id |-> -1, us_per_sample |-> 0, max_distance |-> 0, ans_type |-> 0, name |-> <<>>]

\* us_per_sample and max_distance are kept as the numerator of value / 256
get_scan_mode_with_timeout(ch, scan_mode, dev) ==
    With(get_scan_mode_us_per_sample_with_timeout(ch, scan_mode, dev), LAMBDA us :
    IF us.res # "Ok" THEN [res |-> us.res, val |-> NoMode, ch |-> us.ch] ELSE
    With(get_scan_mode_max_distance_with_timeout(us.ch, scan_mode, dev), LAMBDA dist :
    IF dist.res # "Ok" THEN [res |-> dist.res, val |-> NoMode, ch |-> dist.ch] ELSE
    With(get_scan_mode_ans_type_with_timeout(dist.ch, scan_mode, dev), LAMBDA ans :
    IF ans.res # "Ok" THEN [res |-> ans.res, val |-> NoMode, ch |-> ans.ch] ELSE
    With(get_scan_mode_name_with_timeout(ans.ch, scan_mode, dev), LAMBDA name :
    IF name.res # "Ok" THEN [res |-> name.res, val |-> NoMode, ch |-> name.ch] ELSE
    [res |-> "Ok",
     val |-> [id |-> scan_mode, us_per_sample |-> us.val,
              max_distance |-> dist.val, ans_type |-> ans.val, name |-> name.val],
     ch |-> name.ch]))))

get_scan_mode_count_with_timeout(ch, dev) ==
    ConfInteger(ch, RPLIDAR_CONF_SCAN_MODE_COUNT, <<>>, 2, dev, "count")

\* (variant: a failing query ends the loop with the modes resolved so far)
RECURSIVE ScanModesFromKeepingPartial(_, _, _, _, _)
ScanModesFromKeepingPartial(ch, i, scan_mode_count, output, dev) ==
    IF i >= scan_mode_count THEN [res |-> "Ok", val |-> output, ch |-> ch]
    ELSE With(get_scan_mode_with_timeout(ch, i, dev), LAMBDA m :
            IF m.res # "Ok" THEN [res |-> "Ok", val |-> output, ch |-> m.ch]
            ELSE ScanModesFromKeepingPartial(m.ch, i + 1, scan_mode_count,
                                             Append(output, m.val), dev))

\* for i in i..scan_mode_count: output.push(get_scan_mode_with_timeout(i)?)
RECURSIVE ScanModesFrom(_, _, _, _, _)
ScanModesFrom(ch, i, scan_mode_count, output, dev) ==
    IF i >= scan_mode_count THEN [res |-> "Ok", val |-> output, ch |-> ch]
    ELSE With(get_scan_mode_with_timeout(ch, i, dev), LAMBDA m :
            IF m.res # "Ok" THEN [res |-> m.res, val |-> <<>>, ch |-> m.ch]
            ELSE ScanModesFrom(m.ch, i + 1, scan_mode_count, Append(output, m.val), dev))

get_all_supported_scan_modes_with_timeout(ch, dev) ==
    With(get_scan_mode_count_with_timeout(ch, dev), LAMBDA scan_mode_count :
       IF scan_mode_count.res # "Ok"
       THEN [res |-> scan_mode_count.res, val |-> <<>>, ch |-> scan_mode_count.ch]
       ELSE ScanModesFrom(scan_mode_count.ch, 0, scan_mode_count.val, <<>>, dev))

\* (variant: the plain request whatever force_scan says)
legacy_start_scan_never_forced(ch, force_scan, tr) ==
    ChannelWrite(ch, [cmd |-> RPLIDAR_CMD_SCAN, data |-> <<>>], tr)

legacy_start_scan(ch, force_scan, tr) ==
    ChannelWrite(ch, [cmd |-> IF force_scan THEN RPLIDAR_CMD_FORCE_SCAN ELSE RPLIDAR_CMD_SCAN,
                      data |-> <<>>], tr)

\* the payload is the packed record: work_mode u8, work_flags u16, param u16
start_express_scan(ch, payload, tr) ==
    ChannelWrite(ch, [cmd |-> RPLIDAR_CMD_EXPRESS_SCAN,
                      data |-> <<payload.work_mode>> \o WriteLE(payload.work_flags, 2)
                                   \o WriteLE(payload.param, 2)], tr)

\* (variant: the cached capsule survives the scan start)
KeepPrevCapsule(st) == st

\* (variant: the scan start also empties the output queue)
ResetPrevCapsuleAndQueue(st) == [st EXCEPT !.capsule = CapsuleNone, !.nodes = <<>>]

\* self.cached_prev_capsule = CachedPrevCapsule::None
ResetPrevCapsule(st) == [st EXCEPT !.capsule = CapsuleNone]

\* options.scan_mode = -1 stands for None
start_scan_with_options_and_timeout(st, ch, options, dev, tr) ==
    With(ResetPrevCapsule(st), LAMBDA st1 :
    With(IF options.scan_mode = -1
         THEN get_typical_scan_mode_with_timeout(ch, dev)
         ELSE [res |-> "Ok", val |-> options.scan_mode, ch |-> ch], LAMBDA scan_mode :
    IF scan_mode.res # "Ok"
    THEN [res |-> scan_mode.res, info |-> NoMode, st |-> st1, ch |-> scan_mode.ch] ELSE
    With(get_scan_mode_with_timeout(scan_mode.ch, scan_mode.val, dev), LAMBDA scan_mode_info :
    IF scan_mode_info.res # "Ok"
    THEN [res |-> scan_mode_info.res, info |-> NoMode, st |-> st1, ch |-> scan_mode_info.ch] ELSE
    With(IF scan_mode.val = 0
         THEN legacy_start_scan(scan_mode_info.ch, options.force_scan, tr)
         ELSE start_express_scan(scan_mode_info.ch,
                  [work_mode |-> scan_mode.val % 256,
                   work_flags |-> options.options % 65536,
                   param |-> 0], tr), LAMBDA started :
    IF started.res # "Ok"
    THEN [res |-> started.res, info |-> NoMode, st |-> st1, ch |-> started.ch]
    ELSE [res |-> "Ok", info |-> scan_mode_info.val, st |-> st1, ch |-> started.ch]))))

----------------------------------------------------------------------------
(* What the environment sends and what the caller passes *)

\* a payload whose two header bytes carry the sync nibbles and the checksum of body
Seal(body) ==
    <<RPLIDAR_RESP_MEASUREMENT_EXP_SYNC_1 * 16 + (Checksum(body) % 16),
      RPLIDAR_RESP_MEASUREMENT_EXP_SYNC_2 * 16 + (Checksum(body) \div 16)>> \o body

Frame(cmd, data) == [cmd |-> cmd, data |-> data]

Telemetry ==
    { Frame(RPLIDAR_ANS_TYPE_MEASUREMENT, Zeros(SIZE_MeasurementNode)),
      Frame(RPLIDAR_ANS_TYPE_MEASUREMENT_HQ, Zeros(SIZE_MeasurementNodeHq)),
      Frame(RPLIDAR_ANS_TYPE_MEASUREMENT_CAPSULED,
            Seal(Zeros(SIZE_CapsuleMeasurementNodes - 2))),
      \* a body byte changed after sealing: the checksum no longer matches
      Frame(RPLIDAR_ANS_TYPE_MEASUREMENT_CAPSULED,
            [Seal(Zeros(SIZE_CapsuleMeasurementNodes - 2)) EXCEPT ![3] = 1]),
      \* well sealed, but not the size of the record
      Frame(RPLIDAR_ANS_TYPE_MEASUREMENT_CAPSULED,
            Seal(Zeros(SIZE_CapsuleMeasurementNodes - 3))),
      Frame(RPLIDAR_ANS_TYPE_MEASUREMENT_CAPSULED_ULTRA,
            Seal(Zeros(SIZE_UltraCapsuleMeasurementNodes - 2))),
      \* the second sync nibble is wrong
      Frame(RPLIDAR_ANS_TYPE_MEASUREMENT_CAPSULED_ULTRA,
            [Seal(Zeros(SIZE_UltraCapsuleMeasurementNodes - 2)) EXCEPT ![2] = 0]),
      Frame(RPLIDAR_ANS_TYPE_DEVINFO, Zeros(1)) }

Queries == {"typical", "count", "info", "us", "dist", "ans", "name"}
AllOk == [q \in Queries |-> "ok"]

\* the device answers every query well, or leaves the sample-duration query
\* unanswered
DeviceKinds == {AllOk, [AllOk EXCEPT !["us"] = "none"]}

\* the caller's ScanOptions (scan_mode -1 is None), with the typical mode of
\* the device it talks to: the default options, and a forced legacy scan
ScanCalls ==
    { [scan_mode |-> -1, force_scan |-> FALSE, options |-> 0, typical |-> 2],
      [scan_mode |-> 0, force_scan |-> TRUE, options |-> 0, typical |-> 2] }

----------------------------------------------------------------------------
(* The state machine *)

NoCall ==
    [op |-> "none", res |-> "-", point |-> NoPoint, pre |-> State(<<>>, CapsuleNone),
     msg |-> NoMsg, waited |-> FALSE, wres |-> "-", emitted |-> 0, rest |-> <<>>,
     info |-> NoMode]

NoSession == [capsules |-> 0, points |-> 0]

\* RplidarDevice::new
Init ==
    /\ cached_measurement_nodes = <<>>
    /\ cached_prev_capsule = CapsuleNone
    /\ wire = <<>>
    /\ nseq = 0
    /\ io = <<>>
    /\ last = NoCall
    /\ decoded = <<>>
    /\ delivered = <<>>
    /\ session = NoSession
    /\ dropped = {}

\* a telemetry frame arrives and is buffered by the channel
Receive ==
    /\ nseq < MaxFrames
    /\ \E f \in Telemetry :
          wire' = Append(wire, [cmd |-> f.cmd, data |-> f.data, seq |-> nseq + 1])
    /\ nseq' = nseq + 1
    /\ UNCHANGED <<cached_measurement_nodes, cached_prev_capsule, io, last,
                   decoded, delivered, session, dropped>>

\* the points a call appended to the queue
Appended(pre, res) == res.pushed

GrabScanPoint ==
    \E tr \in {"ok", "ioerr"} :
      \E pre \in {State(cached_measurement_nodes, cached_prev_capsule)} :
        \E r \in {grab_scan_point_with_timeout(pre, Chan(wire, <<>>), tr)} :
           /\ cached_measurement_nodes' = r.st.nodes
           /\ cached_prev_capsule' = r.st.capsule
           /\ wire' = r.ch.wire
           /\ io' = r.ch.io
           /\ last' = [op |-> "grab", res |-> r.res, point |-> r.point, pre |-> pre,
                       msg |-> r.msg, waited |-> r.waited, wres |-> r.wres,
                       emitted |-> Len(Appended(pre, r)), rest |-> r.ch.wire,
                       info |-> NoMode]
           /\ decoded' = decoded \o Appended(pre, r)
           /\ delivered' = IF r.res = "Ok" THEN Append(delivered, r.point) ELSE delivered
           /\ session' =
                 IF r.wres = "Ok" /\ r.msg.cmd = RPLIDAR_ANS_TYPE_MEASUREMENT_CAPSULED
                 THEN IF pre.capsule.kind = "Capsuled"
                      THEN [capsules |-> session.capsules + 1,
                            points |-> session.points + Len(Appended(pre, r))]
                      ELSE [capsules |-> 1, points |-> Len(Appended(pre, r))]
                 ELSE IF r.st.capsule.kind # "Capsuled" THEN NoSession
                 ELSE session
           /\ dropped' =
                 IF r.wres = "ProtocolError" /\ r.msg.cmd = RPLIDAR_ANS_TYPE_MEASUREMENT_CAPSULED
                 THEN dropped \cup {r.msg.seq}
                 ELSE dropped
           /\ UNCHANGED nseq

StartScan ==
    \E call \in ScanCalls, kinds \in DeviceKinds, tr \in {"ok", "ioerr"} :
      \E pre \in {State(cached_measurement_nodes, cached_prev_capsule)} :
        \E r \in {start_scan_with_options_and_timeout(
                     pre, Chan(wire, <<>>), call,
                     [typical |-> call.typical, count |-> 0, only |-> -1,
                      kinds |-> kinds], tr)} :
           /\ cached_measurement_nodes' = r.st.nodes
           /\ cached_prev_capsule' = r.st.capsule
           /\ wire' = r.ch.wire
           /\ io' = r.ch.io
           /\ last' = [op |-> "start_scan", res |-> r.res, point |-> NoPoint, pre |-> pre,
                       msg |-> NoMsg, waited |-> FALSE, wres |-> "-", emitted |-> 0,
                       rest |-> r.ch.wire, info |-> r.info]
           /\ session' = IF r.st.capsule.kind # "Capsuled" THEN NoSession ELSE session
           /\ UNCHANGED <<nseq, decoded, delivered, dropped>>

Next == Receive \/ GrabScanPoint \/ StartScan

Spec == Init /\ [][Next]_vars

----------------------------------------------------------------------------
(* The negotiation: the caller's commands and queries against a device that *)
(* is not streaming telemetry.  One call at a time: the caller makes a call, *)
(* takes its result and is then free to make the next; io holds the         *)
(* transport operations of the call, last its arguments, the device it      *)
(* talked to and its result.                                                *)

\* the largest number of scan modes a device reports
MaxModeCount == 2

\* the ways a device fails one query
FailKinds == {"none", "echo", "size", "short", "type", "ioerr"}

\* devices that answer every query well, or one query badly (for the modes
\* given by only)
Devices(typical, count, only, queries, kinds) ==
    { [typical |-> typical, count |-> count, only |-> only, kinds |-> AllOk] }
      \cup { [typical |-> typical, count |-> count, only |-> only,
              kinds |-> [AllOk EXCEPT ![q] = k]] : q \in queries, k \in kinds }

\* scan_mode -1 is None; 258 does not fit in one byte
ScanModeIds == {0, 2, 258}

NegotiatedScanCalls ==
    { [scan_mode |-> m, force_scan |-> f, options |-> o] :
          m \in {-1} \cup ScanModeIds, f \in BOOLEAN, o \in {0, 257} }

\* the record of a finished call
Called(op, args, dev, r, val) ==
    [op |-> op, res |-> r.res, point |-> NoPoint,
     pre |-> State(cached_measurement_nodes, cached_prev_capsule),
     msg |-> NoMsg, waited |-> FALSE, wres |-> "-", emitted |-> 0,
     rest |-> r.ch.wire, info |-> NoMode, args |-> args, dev |-> dev, val |-> val]

\* a call that touches the transport only
Transport(op, args, dev, r, val) ==
    /\ wire' = r.ch.wire
    /\ io' = r.ch.io
    /\ last' = Called(op, args, dev, r, val)
    /\ UNCHANGED <<cached_measurement_nodes, cached_prev_capsule, nseq,
                   decoded, delivered, session, dropped>>

NoDevice == [typical |-> 0, count |-> 0, only |-> -1, kinds |-> AllOk]

GetDeviceInfo ==
    /\ last.op = "none"
    /\ \E dev \in Devices(0, 0, -1, {"info"}, FailKinds \ {"echo", "short"}) :
         \E r \in {get_device_info_with_timeout(Chan(wire, <<>>), dev)} :
            Transport("get_device_info", <<>>, dev, r, r.val)

Stop ==
    /\ last.op = "none"
    /\ \E tr \in {"ok", "ioerr"} :
         \E r \in {stop(Chan(wire, <<>>), tr)} : Transport("stop", <<>>, NoDevice, r, <<>>)

CoreReset ==
    /\ last.op = "none"
    /\ \E tr \in {"ok", "ioerr"} :
         \E r \in {core_reset(Chan(wire, <<>>), tr)} :
            Transport("core_reset", <<>>, NoDevice, r, <<>>)

SetMotorPwm ==
    /\ last.op = "none"
    /\ \E pwm \in {0, 660}, tr \in {"ok", "ioerr"} :
         \E r \in {set_motor_pwm(Chan(wire, <<>>), pwm, tr)} :
            Transport("set_motor_pwm", pwm, NoDevice, r, <<>>)

\* get_lidar_conf_with_param: the query of a mode's answer type or name
GetLidarConf ==
    /\ last.op = "none"
    /\ \E config_type \in {RPLIDAR_CONF_SCAN_MODE_ANS_TYPE, RPLIDAR_CONF_SCAN_MODE_NAME},
          mode \in {0, 2} :
         \E dev \in Devices(2, MaxModeCount, -1, {"ans"}, FailKinds) :
           \E r \in {get_lidar_conf_with_param_and_timeout(
                        Chan(wire, <<>>), config_type, WriteLE(mode, 2), dev, "ans")} :
              Transport("get_lidar_conf",
                        [config_type |-> config_type, param |-> WriteLE(mode, 2)],
                        dev, r, r.val)

GetTypicalScanMode ==
    /\ last.op = "none"
    /\ \E typical \in ScanModeIds :
         \E dev \in Devices(typical, MaxModeCount, -1, {"typical"}, FailKinds) :
           \E r \in {get_typical_scan_mode_with_timeout(Chan(wire, <<>>), dev)} :
              Transport("get_typical_scan_mode", <<>>, dev, r, r.val)

GetAllSupportedScanModes ==
    /\ last.op = "none"
    /\ \E count \in 0..MaxModeCount, only \in 0..(MaxModeCount - 1) :
         \E dev \in Devices(2, count, only, {"count", "us", "dist", "ans", "name"},
                            {"none", "echo", "ioerr"}) :
           \E r \in {get_all_supported_scan_modes_with_timeout(Chan(wire, <<>>), dev)} :
              Transport("get_all_supported_scan_modes", <<>>, dev, r, r.val)

StartScanNegotiated ==
    /\ last.op = "none"
    /\ \E call \in NegotiatedScanCalls, typical \in ScanModeIds, tr \in {"ok", "ioerr"} :
         \E dev \in Devices(typical, MaxModeCount, -1, {"typical", "us", "dist", "ans", "name"},
                            {"none", "echo", "ioerr"}) :
           \E pre \in {State(cached_measurement_nodes, cached_prev_capsule)} :
             \E r \in {start_scan_with_options_and_timeout(pre, Chan(wire, <<>>), call, dev, tr)} :
                /\ call.scan_mode # -1 => typical = 2
                /\ cached_measurement_nodes' = r.st.nodes
                /\ cached_prev_capsule' = r.st.capsule
                /\ wire' = r.ch.wire
                /\ io' = r.ch.io
                /\ last' = [Called("start_scan", call, dev, r, <<>>) EXCEPT
                               !.info = r.info,
                               !.args = [scan_mode |-> call.scan_mode,
                                         force_scan |-> call.force_scan,
                                         options |-> call.options, tr |-> tr]]
                /\ UNCHANGED <<nseq, decoded, delivered, session, dropped>>

\* the caller takes the result of the call
Return ==
    /\ last.op # "none"
    /\ last' = NoCall
    /\ io' = <<>>
    /\ UNCHANGED <<cached_measurement_nodes, cached_prev_capsule, wire, nseq,
                   decoded, delivered, session, dropped>>

NextNegotiation ==
    \/ Return
    \/ GetDeviceInfo \/ Stop \/ CoreReset \/ SetMotorPwm
    \/ GetLidarConf \/ GetTypicalScanMode \/ GetAllSupportedScanModes
    \/ StartScanNegotiated
    \/ GrabScanPoint

SpecNegotiation == Init /\ [][NextNegotiation]_vars

----------------------------------------------------------------------------
(* The frame validator on its own: a payload is drawn, validated, and, when *)
(* accepted, validated again with one byte of its checked region changed.   *)

\* the longest payload drawn
MaxPayloadLen == 4

\* the bytes of the payloads: with and without the sync nibbles, with low
\* and high checksum nibbles set
PayloadBytes ==
    {0, 1, 16, 255,
     RPLIDAR_RESP_MEASUREMENT_EXP_SYNC_1 * 16, RPLIDAR_RESP_MEASUREMENT_EXP_SYNC_1 * 16 + 1,
     RPLIDAR_RESP_MEASUREMENT_EXP_SYNC_2 * 16, RPLIDAR_RESP_MEASUREMENT_EXP_SYNC_2 * 16 + 1}

Payloads == UNION { [1..n -> PayloadBytes] : n \in 0..MaxPayloadLen }

InitValidator ==
    /\ cached_measurement_nodes = <<>>
    /\ cached_prev_capsule = CapsuleNone
    /\ wire = <<>>
    /\ nseq = 0
    /\ io = <<>>
    /\ last \in { [op |-> "payload", data |-> d] : d \in Payloads }
    /\ decoded = <<>>
    /\ delivered = <<>>
    /\ session = NoSession
    /\ dropped = {}

Validate ==
    /\ last.op = "payload"
    /\ last' = [op |-> "checked", data |-> last.data,
                res |-> check_sync_and_checksum(Frame("-", last.data))]
    /\ UNCHANGED <<cached_measurement_nodes, cached_prev_capsule, wire, nseq, io,
                   decoded, delivered, session, dropped>>

ValidateChanged ==
    /\ last.op = "checked" /\ last.res = "Ok"
    /\ \E i \in 3..Len(last.data) : \E b \in PayloadBytes \ {last.data[i]} :
          last' = [op |-> "rechecked", data |-> [last.data EXCEPT ![i] = b],
                   res |-> check_sync_and_checksum(
                              Frame("-", [last.data EXCEPT ![i] = b])),
                   at |-> i, from |-> last.data]
    /\ UNCHANGED <<cached_measurement_nodes, cached_prev_capsule, wire, nseq, io,
                   decoded, delivered, session, dropped>>

NextValidator == Validate \/ ValidateChanged

SpecValidator == InitValidator /\ [][NextValidator]_vars

----------------------------------------------------------------------------
(* Vocabulary of the properties *)

\* decode order: by arrival of the dispatched frame, then by position
Before(p, q) == p.trig < q.trig \/ (p.trig = q.trig /\ p.idx < q.idx)

\* the points the last grab_scan_point call appended to the queue
Emitted == SubSeq(decoded, Len(decoded) - last.emitted + 1, Len(decoded))

IsCapsuleFrame(msg) ==
    msg.cmd \in {RPLIDAR_ANS_TYPE_MEASUREMENT_CAPSULED,
                 RPLIDAR_ANS_TYPE_MEASUREMENT_CAPSULED_ULTRA}

Invalid(msg) == check_sync_and_checksum(msg) # "Ok"

\* the last call was a grab_scan_point whose dispatch read a frame of this type
Dispatched(cmd) == last.op = "grab" /\ last.waited /\ last.msg.cmd = cmd

\* the last call was a grab_scan_point whose dispatch read a capsule or
\* ultra-capsule frame that fails validation
DispatchedInvalid ==
    last.op = "grab" /\ last.waited /\ IsCapsuleFrame(last.msg) /\ Invalid(last.msg)

\* how many points the frames in `frames` append when dispatched one by one
RECURSIVE Drain(_, _)
Drain(st, frames) ==
    IF frames = <<>> THEN Len(st.nodes)
    ELSE Drain(DispatchMsg(st, Head(frames)).st, Tail(frames))

\* the points still to come from the frames that were buffered when the last
\* call returned
Pending == Drain(State(<<>>, cached_prev_capsule), last.rest)

----------------------------------------------------------------------------
(* C1: the points returned by successful grab_scan_point calls are, in order, *)
(* the points appended to the queue: what was appended is what was returned   *)
(* followed by what is still queued (none twice, none skipped, none           *)
(* reordered), and the appended points are in the order of arrival of the     *)
(* frame whose dispatch appended them and, within one frame, of position.     *)
C1_DeliveredInDecodeOrder ==
    /\ decoded = delivered \o cached_measurement_nodes
    /\ \A i \in 1..(Len(decoded) - 1) : Before(decoded[i], decoded[i + 1])

\* two points of one capsule and a point of a later frame were delivered
C1_Witness ==
    /\ Len(delivered) >= 3
    /\ delivered[1].trig = delivered[2].trig
    /\ delivered[1].src # delivered[1].trig
    /\ delivered[3].trig > delivered[2].trig

(* C2: grab_scan_point called with a non-empty queue returns the head of the  *)
(* queue, performs no transport operation, removes exactly that point and     *)
(* leaves the rest of the queue and the capsule cache as they were.           *)
C2_NonEmptyGrabOnlyPops ==
    (last.op = "grab" /\ last.pre.nodes # <<>>) =>
        /\ last.res = "Ok"
        /\ last.point = Head(last.pre.nodes)
        /\ io = <<>>
        /\ ~last.waited
        /\ cached_measurement_nodes = Tail(last.pre.nodes)
        /\ cached_prev_capsule = last.pre.capsule

\* a point was handed out of the queue while a frame was waiting in the channel
C2_Witness ==
    /\ last.op = "grab" /\ last.pre.nodes # <<>> /\ last.res = "Ok"
    /\ last.pre.capsule.kind = "Capsuled"
    /\ last.rest # <<>>

(* C3: grab_scan_point called with an empty queue runs the dispatch step      *)
(* once, which is one read_until and nothing else; with no frame the dispatch *)
(* step succeeds with no new data; when the dispatch step succeeds the call   *)
(* fails with OperationTimeout exactly if the queue is still empty, and       *)
(* otherwise returns the head of the queue and leaves the rest queued.        *)
C3_OneDispatchThenTimeoutOrHead ==
    (last.op = "grab" /\ last.pre.nodes = <<>>) =>
        /\ last.waited
        /\ Len(io) = 1 /\ io[1].op = "read"
        /\ (io[1].res = "Ok" /\ last.msg = NoMsg) => (last.wres = "Ok" /\ last.emitted = 0)
        /\ last.wres = "Ok" => (last.res = "OperationTimeout" <=> last.emitted = 0)
        /\ last.res = "OperationTimeout" => last.wres = "Ok"
        /\ (last.wres = "Ok" /\ last.emitted > 0) =>
               /\ last.res = "Ok"
               /\ last.point = Emitted[1]
               /\ cached_measurement_nodes = Tail(Emitted)

\* an empty queue, no frame within the timeout: one read, OperationTimeout
C3_Witness ==
    /\ last.op = "grab" /\ last.pre.nodes = <<>> /\ last.msg = NoMsg
    /\ io = <<ReadOp("Ok")>>
    /\ last.res = "OperationTimeout"

(* C4 as stated: no grab_scan_point call fails with OperationTimeout before   *)
(* all the points of the buffered frames have been delivered, i.e. when a     *)
(* call fails with OperationTimeout the frames still buffered decode to no    *)
(* point.                                                                     *)
C4_NoTimeoutBeforeAllDelivered ==
    (last.op = "grab" /\ last.res = "OperationTimeout") => Pending = 0

(* C4 amended: the successful calls deliver the decoded points in decode      *)
(* order, all of them once the buffer is exhausted; a call reads at most one  *)
(* frame; it fails with OperationTimeout only when the queue was empty and    *)
(* its one dispatch succeeded without appending a point (no frame, or a frame *)
(* that emits nothing such as the first capsule of a session), and it does    *)
(* fail so when the buffer is exhausted.                                      *)
C4_TimeoutWhenDispatchEmitsNothing ==
    /\ Len(delivered) <= Len(decoded)
    /\ delivered = SubSeq(decoded, 1, Len(delivered))
    /\ last.op = "grab" => Len(io) <= 1
    /\ (last.op = "grab" /\ last.res = "OperationTimeout") =>
           /\ last.pre.nodes = <<>> /\ last.wres = "Ok" /\ last.emitted = 0
           /\ last.rest = <<>> => delivered = decoded
    /\ (last.op = "grab" /\ last.pre.nodes = <<>> /\ last.wres = "Ok" /\ last.msg = NoMsg) =>
           last.res = "OperationTimeout"

\* OperationTimeout on the first capsule while the next frames still hold points
C4_Witness ==
    /\ last.op = "grab" /\ last.res = "OperationTimeout"
    /\ last.msg.cmd = RPLIDAR_ANS_TYPE_MEASUREMENT_CAPSULED
    /\ Pending > 0

(* C5: after a successful start_scan the capsule cache is None, whatever was  *)
(* cached before; and a capsule or ultra-capsule frame dispatched while the   *)
(* cache is None emits no points.                                             *)
C5_StartScanResetsCache ==
    /\ (last.op = "start_scan" /\ last.res = "Ok") => cached_prev_capsule = CapsuleNone
    /\ (last.op = "grab" /\ last.waited /\ IsCapsuleFrame(last.msg)
          /\ last.pre.capsule = CapsuleNone) => last.emitted = 0

\* a scan was started over a cached classic capsule, and a capsule is arriving
C5_Witness ==
    /\ last.op = "start_scan" /\ last.res = "Ok"
    /\ last.pre.capsule.kind = "Capsuled"
    /\ wire # <<>> /\ Head(wire).cmd = RPLIDAR_ANS_TYPE_MEASUREMENT_CAPSULED

(* C6: a valid classic capsule dispatched while the cache is None emits no    *)
(* points; dispatched while classic capsule C_n is cached it emits exactly    *)
(* the points of C_n in position order; either way it is the cache            *)
(* afterwards.  Hence whenever a classic capsule is cached, the k >= 1        *)
(* classic capsules decoded since the cache last held none have appended      *)
(* k - 1 capsules' worth of points.                                           *)
C6_ClassicCapsuleLookahead ==
    /\ (Dispatched(RPLIDAR_ANS_TYPE_MEASUREMENT_CAPSULED) /\ last.wres = "Ok") =>
           /\ cached_prev_capsule = Capsuled(last.msg)
           /\ last.pre.capsule.kind = "None" => last.emitted = 0
           /\ last.pre.capsule.kind = "Capsuled" =>
                  Emitted = [i \in 1..PointsPerCapsule |->
                                [trig |-> last.msg.seq, src |-> last.pre.capsule.seq,
                                 idx |-> i]]
    /\ cached_prev_capsule.kind = "Capsuled" =>
           /\ session.capsules >= 1
           /\ session.points = (session.capsules - 1) * PointsPerCapsule

\* the third classic capsule in a row has just emitted the points of the second
C6_Witness ==
    /\ Dispatched(RPLIDAR_ANS_TYPE_MEASUREMENT_CAPSULED)
    /\ session.capsules = 3
    /\ session.points = 2 * PointsPerCapsule
    /\ last.emitted = PointsPerCapsule

(* C7: a valid ultra-capsule dispatched while an ultra-capsule is cached      *)
(* emits the points of the cached one and becomes the cache.                  *)
C7_UltraCapsuleLookahead ==
    (Dispatched(RPLIDAR_ANS_TYPE_MEASUREMENT_CAPSULED_ULTRA) /\ last.wres = "Ok"
       /\ last.pre.capsule.kind = "UltraCapsuled") =>
        /\ last.emitted > 0
        /\ cached_prev_capsule = UltraCapsuled(last.msg)

(* C8 as stated: for a capsule or ultra-capsule frame that fails validation   *)
(* neither the dispatch step nor grab_scan_point returns ProtocolError.       *)
C8_InvalidFrameNoError ==
    DispatchedInvalid => (last.wres # "ProtocolError" /\ last.res # "ProtocolError")

(* C8 amended: for such a frame the dispatch step fails with ProtocolError    *)
(* and grab_scan_point returns that error to its caller; the frame yields no  *)
(* point.                                                                     *)
C8_InvalidFrameProtocolError ==
    DispatchedInvalid =>
        /\ last.wres = "ProtocolError"
        /\ last.res = "ProtocolError"
        /\ last.point = NoPoint
        /\ last.emitted = 0

\* a capsule with a wrong checksum was read and the caller got ProtocolError
C8_Witness ==
    /\ DispatchedInvalid
    /\ last.msg.cmd = RPLIDAR_ANS_TYPE_MEASUREMENT_CAPSULED
    /\ last.res = "ProtocolError"

(* C9: a capsule or ultra-capsule frame that fails validation leaves the      *)
(* capsule cache and the queue exactly as they were before it was read.       *)
C9_InvalidFrameDropped ==
    DispatchedInvalid =>
        /\ cached_prev_capsule = last.pre.capsule
        /\ cached_measurement_nodes = last.pre.nodes
        /\ last.emitted = 0

\* an invalid ultra-capsule was read while a classic capsule was cached
C9_Witness ==
    /\ DispatchedInvalid
    /\ last.msg.cmd = RPLIDAR_ANS_TYPE_MEASUREMENT_CAPSULED_ULTRA
    /\ last.pre.capsule.kind = "Capsuled"

(* C10: no point is produced by pairing a capsule cached before a dropped     *)
(* classic capsule with a capsule received after it: no appended point has    *)
(* the arrival of a dropped capsule between that of the capsule carrying its  *)
(* data and that of the capsule whose dispatch emitted it.                    *)
C10_NoPointsAcrossDroppedCapsule ==
    \A i \in 1..Len(decoded) : \A d \in dropped :
        ~(decoded[i].src < d /\ d < decoded[i].trig)

----------------------------------------------------------------------------
(* Vocabulary of the negotiation properties *)

\* the mode id start_scan resolves: the explicit option, else the typical mode
Resolved ==
    IF last.args.scan_mode = -1 THEN last.dev.typical ELSE last.args.scan_mode

\* the descriptor of a mode as the device reports it
DeviceDescriptor(dev, mode) ==
    [id |-> mode,
     us_per_sample |-> ReadLE(DeviceConf(dev, RPLIDAR_CONF_SCAN_MODE_US_PER_SAMPLE, mode)),
     max_distance |-> ReadLE(DeviceConf(dev, RPLIDAR_CONF_SCAN_MODE_MAX_DISTANCE, mode)),
     ans_type |-> ReadLE(DeviceConf(dev, RPLIDAR_CONF_SCAN_MODE_ANS_TYPE, mode)),
     name |-> SubSeq(DeviceConf(dev, RPLIDAR_CONF_SCAN_MODE_NAME, mode), 1, 2)]

IsScanStart(o) ==
    o.op = "write"
      /\ o.cmd \in {RPLIDAR_CMD_SCAN, RPLIDAR_CMD_FORCE_SCAN, RPLIDAR_CMD_EXPRESS_SCAN}

\* the scan-start requests of the last call, in order
ScanStarts == SelectSeq(io, IsScanStart)

\* what a request asks for: the config type and mode id of a query, or the
\* command
Asked(o) ==
    IF o.cmd = RPLIDAR_CMD_GET_LIDAR_CONF
    THEN [what |-> ReadLE(SubSeq(o.data, 1, 4)),
          mode |-> IF Len(o.data) > 4 THEN ReadLE(SubSeq(o.data, 5, Len(o.data))) ELSE -1]
    ELSE [what |-> o.cmd, mode |-> -1]

\* the requests of the last call, in order
Requests ==
    [i \in 1..Len(SelectSeq(io, LAMBDA o : o.op = "write")) |->
        Asked(SelectSeq(io, LAMBDA o : o.op = "write")[i])]

\* the four queries of get_scan_mode for one mode, in order
DescriptorQueries(mode) ==
    <<[what |-> RPLIDAR_CONF_SCAN_MODE_US_PER_SAMPLE, mode |-> mode],
      [what |-> RPLIDAR_CONF_SCAN_MODE_MAX_DISTANCE, mode |-> mode],
      [what |-> RPLIDAR_CONF_SCAN_MODE_ANS_TYPE, mode |-> mode],
      [what |-> RPLIDAR_CONF_SCAN_MODE_NAME, mode |-> mode]>>

RECURSIVE AllDescriptorQueries(_, _)
AllDescriptorQueries(i, count) ==
    IF i >= count THEN <<>> ELSE DescriptorQueries(i) \o AllDescriptorQueries(i + 1, count)

\* the query a config type stands for
QueryName(what) ==
    IF what = RPLIDAR_CONF_SCAN_MODE_TYPICAL THEN "typical"
    ELSE IF what = RPLIDAR_CONF_SCAN_MODE_COUNT THEN "count"
    ELSE IF what = RPLIDAR_CONF_SCAN_MODE_US_PER_SAMPLE THEN "us"
    ELSE IF what = RPLIDAR_CONF_SCAN_MODE_MAX_DISTANCE THEN "dist"
    ELSE IF what = RPLIDAR_CONF_SCAN_MODE_ANS_TYPE THEN "ans"
    ELSE "name"

\* the last request of the call, and how the device answers it
LastRequest == io[IF io[Len(io)].op = "write" THEN Len(io) ELSE Len(io) - 1]

LastAnswer == KindOf(last.dev, QueryName(Asked(LastRequest).what), LastRequest)

IsPrefix(s, t) == Len(s) <= Len(t) /\ s = SubSeq(t, 1, Len(s))

\* every request but the last was answered: each request that went out is
\* followed by one read, and only the last may have failed to go out
OneReadPerQuery ==
    \A i \in 1..Len(io) :
       (io[i].op = "write" /\ io[i].cmd = RPLIDAR_CMD_GET_LIDAR_CONF) =>
          IF io[i].res = "Ok" THEN i < Len(io) /\ io[i + 1] = ReadOp("Ok")
          ELSE i = Len(io)

----------------------------------------------------------------------------
ConfRequest ==
    [cmd |-> RPLIDAR_CMD_GET_LIDAR_CONF,
     data |-> WriteLE(last.args.config_type, 4) \o last.args.param]

ConfResponse == DeviceReply(last.dev, "ans", ConfRequest)

(* C12: get_lidar_conf_with_param(T, P) sends one request, whose payload is   *)
(* the 4-byte little-endian T followed by P.  When the request is sent: with  *)
(* no response the call fails with OperationTimeout; with a config reply of   *)
(* at least 4 bytes echoing T it returns the bytes after the first 4; with    *)
(* any other response (another echoed type, fewer than 4 bytes, another       *)
(* answer type) it fails with OperationFail.                                  *)
C12_ConfRoundTrip ==
    last.op = "get_lidar_conf" =>
       /\ SelectSeq(io, LAMBDA o : o.op = "write") = <<WriteOp(ConfRequest, io[1].res)>>
       /\ io[1].res = "Ok" =>
             /\ Len(io) = 2 /\ io[2] = ReadOp("Ok")
             /\ ConfResponse = <<>> => last.res = "OperationTimeout"
             /\ ConfResponse # <<>> =>
                   IF /\ ConfResponse[1].cmd = RPLIDAR_ANS_TYPE_GET_LIDAR_CONF
                      /\ Len(ConfResponse[1].data) >= 4
                      /\ SubSeq(ConfResponse[1].data, 1, 4) = WriteLE(last.args.config_type, 4)
                   THEN /\ last.res = "Ok"
                        /\ ConfResponse[1].data = WriteLE(last.args.config_type, 4) \o last.val
                   ELSE last.res = "OperationFail" /\ last.val = <<>>

\* a reply that echoes another config type was refused
C12_Witness ==
    /\ last.op = "get_lidar_conf" /\ last.res = "OperationFail"
    /\ ConfResponse # <<>>
    /\ ConfResponse[1].cmd = RPLIDAR_ANS_TYPE_GET_LIDAR_CONF
    /\ Len(ConfResponse[1].data) >= 4
    /\ SubSeq(ConfResponse[1].data, 1, 4) # WriteLE(last.args.config_type, 4)

(* C13: get_all_supported_scan_modes queries the mode count once and then the *)
(* descriptors of the ids 0, 1, ..., count-1 in ascending order, four queries *)
(* per id.  On success every one of these queries was made and the list has   *)
(* count entries, entry i being the descriptor of id i.  When a query fails   *)
(* the call returns an error and no list, and the failed query is the last    *)
(* request of the call.                                                       *)
C13_AllModesOrAbort ==
    last.op = "get_all_supported_scan_modes" =>
       LET expected == <<[what |-> RPLIDAR_CONF_SCAN_MODE_COUNT, mode |-> -1]>>
                          \o AllDescriptorQueries(0, last.dev.count)
       IN /\ IsPrefix(Requests, expected)
          /\ OneReadPerQuery
          /\ last.res = "Ok" =>
                /\ Requests = expected
                /\ Len(last.val) = last.dev.count
                /\ \A i \in 0..(last.dev.count - 1) :
                      last.val[i + 1] = DeviceDescriptor(last.dev, i)
          /\ last.res # "Ok" =>
                /\ last.val = <<>>
                /\ LastAnswer # "ok"
          /\ (last.dev.kinds # AllOk /\ last.dev.kinds["count"] = "ok"
                /\ last.dev.only < last.dev.count) => last.res # "Ok"

\* the descriptor of mode 0 was resolved, a query of mode 1 failed: an error
\* and no list
C13_Witness ==
    /\ last.op = "get_all_supported_scan_modes" /\ last.res # "Ok"
    /\ Len(Requests) > 5
    /\ last.val = <<>>

\* the blocking transport operations of the last call: its writes, its
\* request/response round trips (an invoke counts once, its read being part
\* of it) and its reads of telemetry
BlockingOps ==
    Cardinality({ i \in 1..Len(io) :
        \/ io[i].op = "write"
        \/ /\ io[i].op = "read"
           /\ ~(i > 1 /\ io[i - 1].op = "write"
                  /\ io[i - 1].cmd \in {RPLIDAR_CMD_GET_LIDAR_CONF,
                                        RPLIDAR_CMD_GET_DEVICE_INFO}) })

(* C14 as stated: every public operation performs at most one blocking        *)
(* read/write on the transport per call.                                      *)
C14_AtMostOneBlockingOp ==
    last.op # "none" => BlockingOps <= 1

(* C14 amended: every public operation performs a bounded sequence of         *)
(* blocking transport operations: grab_scan_point at most one read;           *)
(* get_device_info, get_lidar_conf and get_typical_scan_mode one round trip;  *)
(* stop, core_reset and set_motor_pwm one write; start_scan at most five      *)
(* round trips (the typical-mode query when no mode is given, four descriptor *)
(* queries) and one write, all of them when it succeeds;                      *)
(* get_all_supported_scan_modes one round trip for the count and at most four *)
(* per mode, all of them when it succeeds.                                    *)
C14_BoundedBlockingOps ==
    /\ last.op = "grab" => BlockingOps <= 1
    /\ last.op \in {"get_device_info", "get_lidar_conf", "get_typical_scan_mode",
                    "stop", "core_reset", "set_motor_pwm"} => BlockingOps = 1
    /\ last.op = "start_scan" =>
          /\ BlockingOps <= (IF last.args.scan_mode = -1 THEN 6 ELSE 5)
          /\ last.res = "Ok" => BlockingOps = (IF last.args.scan_mode = -1 THEN 6 ELSE 5)
    /\ last.op = "get_all_supported_scan_modes" =>
          /\ BlockingOps <= 1 + 4 * last.dev.count
          /\ last.res = "Ok" => BlockingOps = 1 + 4 * last.dev.count

\* a successful start_scan with the default options: five round trips and a write
C14_Witness ==
    /\ last.op = "start_scan" /\ last.res = "Ok"
    /\ last.args.scan_mode = -1
    /\ BlockingOps = 6

\* the requests of a start_scan that runs to its end
StartScanRequests ==
    (IF last.args.scan_mode = -1
     THEN <<[what |-> RPLIDAR_CONF_SCAN_MODE_TYPICAL, mode |-> -1]>> ELSE <<>>)
      \o DescriptorQueries(Resolved)
      \o <<[what |-> IF Resolved # 0 THEN RPLIDAR_CMD_EXPRESS_SCAN
                     ELSE IF last.args.force_scan THEN RPLIDAR_CMD_FORCE_SCAN
                     ELSE RPLIDAR_CMD_SCAN,
            mode |-> -1]>>

(* C17: the transport operations of start_scan come in a fixed order: the     *)
(* typical-mode query (only when no mode is given), the four descriptor       *)
(* queries for the resolved mode in the order sample duration, max distance,  *)
(* answer type, name, and then the scan-start write.  When a query fails or   *)
(* times out the call returns that error, the failed query is its last        *)
(* request and no scan-start request is written.                              *)
C17_QueriesThenScanStart ==
    last.op = "start_scan" =>
       /\ IsPrefix(Requests, StartScanRequests)
       /\ OneReadPerQuery
       /\ last.res = "Ok" => Requests = StartScanRequests
       /\ ScanStarts # <<>> =>
             /\ Requests = StartScanRequests
             /\ \A i \in 1..(Len(io) - 1) : io[i].res = "Ok"
             /\ last.res = io[Len(io)].res
       /\ ScanStarts = <<>> =>
             /\ last.res # "Ok"
             /\ LastAnswer # "ok"
             /\ LastAnswer = "none" => last.res = "OperationTimeout"
             /\ LastAnswer = "echo" => last.res = "OperationFail"
             /\ LastAnswer = "ioerr" => last.res = "IoError"

\* the answer-type query timed out: three queries were made, then nothing
C17_Witness ==
    /\ last.op = "start_scan" /\ last.res = "OperationTimeout"
    /\ last.args.scan_mode # -1
    /\ Len(Requests) = 3
    /\ Requests[3].what = RPLIDAR_CONF_SCAN_MODE_ANS_TYPE
    /\ ScanStarts = <<>>

\* the last call dispatched a frame whose answer type is no telemetry type
UnexpectedDispatched ==
    /\ last.op = "grab" /\ last.waited /\ last.msg # NoMsg
    /\ last.msg.cmd \notin {RPLIDAR_ANS_TYPE_MEASUREMENT, RPLIDAR_ANS_TYPE_MEASUREMENT_HQ,
                             RPLIDAR_ANS_TYPE_MEASUREMENT_CAPSULED,
                             RPLIDAR_ANS_TYPE_MEASUREMENT_CAPSULED_ULTRA}

(* C15: when the dispatch step receives a frame whose answer type is none of  *)
(* legacy measurement, HQ measurement, capsule or ultra-capsule, the call     *)
(* fails with ProtocolError and leaves the output queue and the capsule cache *)
(* as they were; and a grab_scan_point call that comes next and reads a       *)
(* legacy or HQ measurement frame returns the point of that frame.            *)
C15_UnexpectedAnswerNotFatal ==
    /\ [](UnexpectedDispatched =>
             /\ last.res = "ProtocolError"
             /\ cached_measurement_nodes = last.pre.nodes
             /\ cached_prev_capsule = last.pre.capsule)
    /\ [][(/\ UnexpectedDispatched
           /\ last'.op = "grab" /\ last'.wres = "Ok"
           /\ last'.msg.cmd \in {RPLIDAR_ANS_TYPE_MEASUREMENT,
                                  RPLIDAR_ANS_TYPE_MEASUREMENT_HQ})
          => /\ last'.res = "Ok"
             /\ last'.point.src = last'.msg.seq
             /\ cached_prev_capsule' = cached_prev_capsule]_vars

\* a device info frame arrived while a capsule was cached
C15_Witness ==
    /\ UnexpectedDispatched
    /\ last.msg.cmd = RPLIDAR_ANS_TYPE_DEVINFO
    /\ last.res = "ProtocolError"
    /\ last.pre.capsule.kind = "Capsuled"

(* C19: the output queue has bounded lookahead: in every reachable state its  *)
(* length is at most the number of points one telemetry frame can emit (one   *)
(* for a legacy or HQ node, one capsule's worth for a capsule pair), and the  *)
(* dispatch step is run only for an empty queue.                              *)
C19_BoundedLookahead ==
    /\ Len(cached_measurement_nodes) <= PointsPerCapsule
    /\ (last.op = "grab" /\ last.waited) => last.pre.nodes = <<>>
    /\ last.op = "grab" => last.emitted <= PointsPerCapsule

\* a capsule pair filled the queue: a capsule's worth less the point returned
C19_Witness ==
    /\ last.op = "grab" /\ last.res = "Ok"
    /\ last.emitted = PointsPerCapsule
    /\ Len(cached_measurement_nodes) = PointsPerCapsule - 1

(* C20: whenever grab_scan_point returns an error of any kind, the output     *)
(* queue is empty on return: no error is returned while decoded points are    *)
(* waiting, and a failing dispatch appends nothing.                           *)
C20_ErrorMeansEmptyQueue ==
    (last.op = "grab" /\ last.res # "Ok") =>
       /\ cached_measurement_nodes = <<>>
       /\ last.pre.nodes = <<>>
       /\ last.emitted = 0

\* a well-sealed capsule of the wrong size was refused while a capsule was cached
C20_Witness ==
    /\ last.op = "grab" /\ last.res = "OperationFail"
    /\ last.msg.cmd = RPLIDAR_ANS_TYPE_MEASUREMENT_CAPSULED
    /\ last.pre.capsule.kind = "Capsuled"
    /\ cached_measurement_nodes = <<>>

\* the XOR of the bytes of a sequence, byte after byte
RECURSIVE XorOf(_)
XorOf(bytes) == IF bytes = <<>> THEN 0 ELSE BitXor(Head(bytes), XorOf(Tail(bytes)))

\* what the validator is to accept
Acceptable(data) ==
    /\ Len(data) >= 2
    /\ data[1] \div 16 = RPLIDAR_RESP_MEASUREMENT_EXP_SYNC_1
    /\ data[2] \div 16 = RPLIDAR_RESP_MEASUREMENT_EXP_SYNC_2
    /\ XorOf(SubSeq(data, 3, Len(data))) = (data[1] % 16) + 16 * (data[2] % 16)

(* C16: the frame validator accepts a payload iff it has at least 2 bytes,    *)
(* the high nibbles of bytes 0 and 1 are the two sync markers, and the XOR of *)
(* the bytes from offset 2 on equals (byte0 & 0x0F) | ((byte1 & 0x0F) << 4);  *)
(* so a payload under 2 bytes is rejected, and an accepted payload with one   *)
(* byte at offset >= 2 changed is rejected.                                   *)
C16_ValidatorAcceptsIff ==
    last.op \in {"checked", "rechecked"} =>
       /\ last.res = "Ok" <=> Acceptable(last.data)
       /\ last.res \in {"Ok", "ProtocolError"}
       /\ Len(last.data) < 2 => last.res = "ProtocolError"
       /\ last.op = "rechecked" => last.res = "ProtocolError"

\* an accepted payload of more than two bytes had a byte changed and was rejected
C16_Witness ==
    /\ last.op = "rechecked"
    /\ Acceptable(last.from)
    /\ last.at >= 3
    /\ last.res = "ProtocolError"

(* C18: for every non-zero scan mode id m passed to start_scan, the express   *)
(* request written carries m itself as its work_mode, the id that was used    *)
(* for the descriptor queries and that the returned ScanMode has, also for    *)
(* m >= 256.                                                                  *)
C18_ExpressCarriesModeId ==
    (last.op = "start_scan" /\ last.res = "Ok" /\ Resolved # 0) =>
       /\ last.info.id = Resolved
       /\ ScanStarts[1].data[1] = Resolved

(* C21: start_scan, successful or failed, leaves the output queue as it was;  *)
(* points leave the queue only by being returned by grab_scan_point, so the   *)
(* points decoded before a scan restart stay queued and are delivered in      *)
(* their order ahead of every point decoded after it: at all times the points *)
(* appended so far are the points returned so far followed by the queue.      *)
C21_StartScanKeepsQueue ==
    /\ last.op = "start_scan" => cached_measurement_nodes = last.pre.nodes
    /\ decoded = delivered \o cached_measurement_nodes
    /\ (last.op = "grab" /\ last.res = "Ok" /\ last.pre.nodes # <<>>) =>
          last.point = Head(last.pre.nodes)

\* a scan was started successfully while a decoded point was waiting
C21_Witness ==
    /\ last.op = "start_scan" /\ last.res = "Ok"
    /\ last.pre.nodes # <<>>
    /\ cached_measurement_nodes = last.pre.nodes

====
